---- MODULE Spec2Model ----
(***************************************************************************)
(* Model of the QCar ground station web client:                            *)
(*   - WebSocketBridgeService (services/websocketBridgeService.ts): the    *)
(*     reconnecting channel client with heartbeat and bounded retry;       *)
(*   - the App component (unnamed/part_008): the vehicle state reducer,    *)
(*     the fallback physics tick, the global emergency stop and the log.   *)
(*                                                                         *)
(* The specifications share the variables:                                 *)
(*   SpecBridge  the channel client with the sockets it creates and the    *)
(*               events the browser delivers for them (SpecBridgeFair:     *)
(*               with a pending reconnect timeout eventually firing);      *)
(*   SpecDispatch the subscription registry and the inbound frames;        *)
(*   SpecIsolation the dispatch of a frame while handlers throw;           *)
(*   SpecFleet   the reducer over the vehicle set (inbound messages, tick, *)
(*               operator edits);                                          *)
(*   SpecMerge   the telemetry merge over every message field and spelling;*)
(*   SpecSnapshot the telemetry handler over vehicles of every status;     *)
(*   SpecCommand the outbound commands over an opening and closing channel;*)
(*   SpecManual  the manual control panel over an opening and closing      *)
(*               channel;                                                  *)
(*   SpecPlatoon the platoon panel over an opening and closing channel;    *)
(*   SpecLog     the capped log.                                           *)
(* The log keeps the history of what was appended, so its contents are     *)
(* tracked in SpecLog only; the other specifications leave `logs' alone.   *)
(***************************************************************************)
EXTENDS Integers, Sequences, FiniteSets, TLC

VARIABLES
    \* ---- WebSocketBridgeService fields ----
    socket,             \* this.socket: 0 is null, otherwise the id of a socket object
    connectionStatus,   \* this.connectionStatus
    reconnectAttempts,  \* this.reconnectAttempts
    reconnectTimer,     \* this.reconnectTimer is set (a timeout is pending)
    heartbeatTimer,     \* this.heartbeatTimer is set (the interval is running)
    \* ---- browser side of the sockets the service created ----
    readyState,         \* readyState of every socket object ("NONE": no such object)
    timers,             \* timeouts and intervals the service set and the browser holds
    eventHandlers,      \* this.eventHandlers: per event type, the handlers in insertion order
    written,            \* frames the last operation wrote with socket.send()
    \* ---- App component state ----
    mounted,            \* the mount effect has run (handlers are subscribed)
    bridgeStatus,       \* useState bridgeStatus
    vehicles,           \* useState vehicles
    globalEStop,        \* useState globalEStop
    v2vActive,          \* useState v2vActive
    logs,               \* useState logs
    \* ---- observation of the run (history, not program state) ----
    now,                \* Date.now(), in ticks of the model clock
    logSeq,             \* number of log entries created so far (uuidv4 is fresh)
    clearedAt,          \* value of logSeq when the log was last cleared
    lastOp,             \* the operation that produced this state
    lastMsg,            \* the inbound message the last operation handled
    lastResult,         \* value returned by the last command operation
    userDisconnected,   \* disconnect() was called and connect() not called by the operator since
    closesSinceOpen,    \* close events delivered since the last successful open
    timersSinceOpen,    \* reconnect timeouts set since the last successful open
    explicitRetry,      \* connect() was called with the attempts exhausted (counter at its maximum, no timeout pending), and no open or close event since
    delivered,          \* handlers the last operation invoked, and whether it raised
    \* ---- the panels of the right column ----
    rightPanel,         \* App: useState rightPanelMode and selectedVehicleId
    manualPanel,        \* ManualControlPanel: useState mode, throttle, steering
    platoonPanel,       \* PlatoonControl: useState leaderId, followers, status;
                        \* readyTimers: pending setTimeout calls of handleSetup
    wire                \* history of the frames written: manualEnabled, the
                        \* targets enable_manual_mode was written for and
                        \* disable_manual_mode not since; platoonLeader, the
                        \* target the last Deploy Configuration wrote
                        \* enable_platoon_leader to ("" for none)

bridgeVars == <<socket, connectionStatus, reconnectAttempts, reconnectTimer,
                heartbeatTimer, readyState, timers, eventHandlers, written,
                lastResult, userDisconnected, closesSinceOpen, timersSinceOpen,
                explicitRetry, delivered>>
appVars    == <<vehicles, globalEStop, v2vActive, now>>
logVars    == <<logs, logSeq, clearedAt>>
panelVars  == <<rightPanel, manualPanel, platoonPanel, wire>>
vars == <<socket, connectionStatus, reconnectAttempts, reconnectTimer,
          heartbeatTimer, readyState, written, mounted, bridgeStatus, vehicles,
          globalEStop, v2vActive, logs, now, logSeq, clearedAt, lastOp, lastMsg,
          lastResult, userDisconnected, closesSinceOpen, timersSinceOpen,
          timers, eventHandlers, explicitRetry, delivered, rightPanel,
          manualPanel, platoonPanel, wire>>

----------------------------------------------------------------------------
\* BRIDGE_CONFIG
maxReconnectAttempts == 10

\* constants.ts
MAP_WIDTH_METERS == 10
MAP_HEIGHT_METERS == 10

\* The log keeps this many entries (addLog)
LogCap == 50

\* Bounds of the model
MaxSockets == 3     \* socket objects that exist at the same time
MaxClock == 1       \* readings of Date.now() after the first
MaxLogAppends == 60 \* log entries created in a run
MaxReadyTimers == 2 \* timeouts of handleSetup pending at the same time

SocketIds == 1..MaxSockets
NULL == 0

ConnectionStatus == {"disconnected", "connecting", "connected", "error"}
ReadyStates == {"NONE", "CONNECTING", "OPEN", "CLOSING", "CLOSED"}

\* Values of message and snapshot fields: <<>> is `undefined' (the field is
\* absent), <<v>> is the value v
Undef == <<>>
Val(v) == <<v>>
NoMsg == [type |-> "none"]

\* Keys of this.eventHandlers: the message types handlers are registered
\* for, "*" for the wildcard handlers
EventTypes == {"telemetry", "v2v_status", "vehicle_status", "*", "ack"}

\* No handler was invoked and nothing was raised
NoDelivery == [invoked |-> <<>>, raised |-> FALSE]

Min(a, b) == IF a < b THEN a ELSE b
Max(a, b) == IF a < b THEN b ELSE a

----------------------------------------------------------------------------
(***************************************************************************)
(* The service's methods are operators over an execution context: a        *)
(* record of the service fields, the sockets' readyState, and `cb', the    *)
(* statuses handed to the status-change callbacks during the handler, and  *)
(* `scheduled', the number of setTimeout calls scheduleReconnect made.     *)
(* `timers' counts what the browser holds: setTimeout and setInterval add  *)
(* one, clearTimeout and clearInterval of a held handle remove one, and a  *)
(* timeout that fires is gone.                                             *)
(***************************************************************************)
Ctx == [socket |-> socket, connectionStatus |-> connectionStatus,
        reconnectAttempts |-> reconnectAttempts,
        reconnectTimer |-> reconnectTimer, heartbeatTimer |-> heartbeatTimer,
        readyState |-> readyState, timers |-> timers, cb |-> <<>>,
        scheduled |-> 0]

\* this.socket?.readyState
SocketState(x) == IF x.socket = NULL THEN "NONE" ELSE x.readyState[x.socket]

\* isConnected()
isConnected(x) == SocketState(x) = "OPEN"

\* setConnectionStatus(status)
setConnectionStatus(x, status) ==
    IF x.connectionStatus # status
    THEN [x EXCEPT !.connectionStatus = status, !.cb = Append(@, status)]
    ELSE x

\* stopHeartbeat()
stopHeartbeat(x) ==
    IF x.heartbeatTimer
    THEN [x EXCEPT !.heartbeatTimer = FALSE, !.timers.heartbeat = @ - 1]
    ELSE x

\* Mutant: startHeartbeat() without the stopHeartbeat() it begins with
startHeartbeat_NoStop(x) ==
    [x EXCEPT !.heartbeatTimer = TRUE, !.timers.heartbeat = @ + 1]

\* startHeartbeat()
startHeartbeat(x) ==
    [stopHeartbeat(x) EXCEPT !.heartbeatTimer = TRUE,
                             !.timers.heartbeat = @ + 1]

\* cleanup()
cleanup(x) ==
    LET y == stopHeartbeat(x) IN
    IF y.reconnectTimer
    THEN [y EXCEPT !.reconnectTimer = FALSE, !.timers.reconnect = @ - 1]
    ELSE y

\* Mutant: the bound is tested with > instead of >=
scheduleReconnect_OffByOne(x) ==
    IF x.reconnectAttempts > maxReconnectAttempts THEN x
    ELSE IF x.reconnectTimer THEN x
    ELSE [x EXCEPT !.reconnectAttempts = @ + 1, !.reconnectTimer = TRUE,
                   !.timers.reconnect = @ + 1, !.scheduled = @ + 1]

\* Mutant: scheduleReconnect() without the test of this.reconnectTimer
scheduleReconnect_NoPendingGuard(x) ==
    IF x.reconnectAttempts >= maxReconnectAttempts THEN x
    ELSE [x EXCEPT !.reconnectAttempts = @ + 1, !.reconnectTimer = TRUE,
                   !.timers.reconnect = @ + 1, !.scheduled = @ + 1]

\* scheduleReconnect()
scheduleReconnect(x) ==
    IF x.reconnectAttempts >= maxReconnectAttempts THEN x
    ELSE IF x.reconnectTimer THEN x
    ELSE [x EXCEPT !.reconnectAttempts = @ + 1, !.reconnectTimer = TRUE,
                   !.timers.reconnect = @ + 1, !.scheduled = @ + 1]

\* A socket object nobody refers to any more and that delivers no further
\* event is gone.
Collect(x) ==
    [x EXCEPT !.readyState =
        [s \in SocketIds |->
            IF s # x.socket /\ x.readyState[s] = "CLOSED" THEN "NONE"
            ELSE x.readyState[s]]]

FreeIds(x) == {s \in SocketIds : x.readyState[s] = "NONE"}
NewId(x) == CHOOSE s \in FreeIds(x) : \A t \in FreeIds(x) : s <= t

\* Mutant: connect() without the `Connection in progress' test
connect_NoProgressGuard(x, throws) ==
    IF SocketState(x) = "OPEN" THEN x
    ELSE LET x1 == setConnectionStatus(x, "connecting") IN
         IF throws
         THEN scheduleReconnect(setConnectionStatus(x1, "error"))
         ELSE Collect([x1 EXCEPT !.socket = NewId(x),
                                 !.readyState[NewId(x)] = "CONNECTING"])

\* connect(url); `throws' says whether `new WebSocket(url)' throws
connect(x, throws) ==
    IF SocketState(x) = "OPEN" THEN x
    ELSE IF SocketState(x) = "CONNECTING" THEN x
    ELSE LET x1 == setConnectionStatus(x, "connecting") IN
         IF throws
         THEN scheduleReconnect(setConnectionStatus(x1, "error"))
         ELSE Collect([x1 EXCEPT !.socket = NewId(x),
                                 !.readyState[NewId(x)] = "CONNECTING"])

\* socket.onopen
onopen(x) ==
    startHeartbeat(setConnectionStatus(
        [x EXCEPT !.reconnectAttempts = 0], "connected"))

\* socket.onclose
onclose(x) ==
    scheduleReconnect(setConnectionStatus(cleanup(x), "disconnected"))

\* socket.onerror
onerror(x) == setConnectionStatus(x, "error")

\* Mutant: disconnect() without cleanup()
disconnect_NoCleanup(x) ==
    LET x2 == IF x.socket # NULL
              THEN [x EXCEPT
                      !.readyState[x.socket] =
                          IF @ \in {"CONNECTING", "OPEN"} THEN "CLOSING" ELSE @,
                      !.socket = NULL]
              ELSE x
    IN  Collect(setConnectionStatus(x2, "disconnected"))

\* disconnect()
disconnect(x) ==
    LET x1 == cleanup(x)
        x2 == IF x1.socket # NULL
              THEN [x1 EXCEPT
                      !.readyState[x1.socket] =
                          IF @ \in {"CONNECTING", "OPEN"} THEN "CLOSING" ELSE @,
                      !.socket = NULL]
              ELSE x1
    IN  Collect(setConnectionStatus(x2, "disconnected"))

\* The App's status callback (setBridgeStatus) applied to every notification
Notify(x) ==
    IF mounted /\ Len(x.cb) > 0 THEN x.cb[Len(x.cb)] ELSE bridgeStatus

\* Store the context a handler ends with
Commit(x) ==
    /\ socket' = x.socket
    /\ connectionStatus' = x.connectionStatus
    /\ reconnectAttempts' = x.reconnectAttempts
    /\ reconnectTimer' = x.reconnectTimer
    /\ heartbeatTimer' = x.heartbeatTimer
    /\ readyState' = x.readyState
    /\ timers' = x.timers
    /\ bridgeStatus' = Notify(x)

\* Count the reconnect timeouts a handler set
CountTimers(x) == timersSinceOpen' = timersSinceOpen + x.scheduled

----------------------------------------------------------------------------
InitBridgeVars ==
    /\ socket = NULL
    /\ connectionStatus = "disconnected"
    /\ reconnectAttempts = 0
    /\ reconnectTimer = FALSE
    /\ heartbeatTimer = FALSE
    /\ readyState = [s \in SocketIds |-> "NONE"]
    /\ timers = [reconnect |-> 0, heartbeat |-> 0]
    /\ eventHandlers = [t \in EventTypes |-> <<>>]
    /\ explicitRetry = FALSE
    /\ delivered = NoDelivery
    /\ written = <<>>
    /\ lastResult = Undef
    /\ userDisconnected = FALSE
    /\ closesSinceOpen = 0
    /\ timersSinceOpen = 0

InitAppVars ==
    /\ vehicles = <<>>
    /\ globalEStop = FALSE
    /\ v2vActive = FALSE
    /\ now = 0

InitLogVars ==
    /\ logs = <<>>
    /\ logSeq = 0
    /\ clearedAt = 0

\* useState of ManualControlPanel and of PlatoonControl when they mount
NewManualPanel == [mode |-> "joystick", throttle |-> 0, steering |-> 0]
NewPlatoonPanel == [leaderId |-> "", followers |-> <<>>, status |-> "idle",
                    readyTimers |-> 0]

\* The right column shows the details view, no vehicle is selected and
\* nothing was written yet
InitPanelVars ==
    /\ rightPanel = [mode |-> "DETAILS", selectedVehicleId |-> ""]
    /\ manualPanel = NewManualPanel
    /\ platoonPanel = NewPlatoonPanel
    /\ wire = [manualEnabled |-> {}, platoonLeader |-> ""]

Init ==
    /\ InitBridgeVars
    /\ InitAppVars
    /\ InitLogVars
    /\ InitPanelVars
    /\ mounted = FALSE
    /\ bridgeStatus = "disconnected"
    /\ lastOp = "init"
    /\ lastMsg = NoMsg

----------------------------------------------------------------------------
(***************************************************************************)
(* Outbound commands.  A frame is the object handed to JSON.stringify: a   *)
(* function from its keys to their values.                                 *)
(***************************************************************************)
Targets == {"all", "qcar-0"}
NoPayload == [k \in {} |-> 0]

\* { type: action, target: target, ...payload }: the payload's keys come last
fullCommand(action, target, payload) ==
    [k \in {"type", "target"} \cup DOMAIN payload |->
        IF k \in DOMAIN payload THEN payload[k]
        ELSE IF k = "type" THEN action ELSE target]

\* sendRawCommand(command): the value returned and the frames written
sendRawCommand(x, command) ==
    IF ~isConnected(x) THEN [ret |-> FALSE, out |-> <<>>]
    ELSE [ret |-> TRUE, out |-> <<command>>]

\* sendCommand(action, target, payload)
sendCommand(x, action, target, payload) ==
    sendRawCommand(x, fullCommand(action, target, payload))

setVelocity(x, velocity, target) ==
    sendCommand(x, "set_velocity", target,
                [type |-> "set_velocity", v_ref |-> velocity])
startMission(x, target) == sendCommand(x, "start", target, NoPayload)
stopMission(x, target) == sendCommand(x, "stop", target, NoPayload)
emergencyStop(x, target) == sendCommand(x, "emergency_stop", target, NoPayload)

sendManualControl(x, throttle, steering, target) ==
    sendCommand(x, "manual_control", target,
                [throttle |-> throttle, steering |-> steering])
enableManualMode(x, target, type) ==
    sendCommand(x, "enable_manual_mode", target, [control_type |-> type])
disableManualMode(x, target) ==
    sendCommand(x, "disable_manual_mode", target, NoPayload)
enablePlatoonLeader(x, target) ==
    sendCommand(x, "enable_platoon_leader", target, [role |-> "leader"])
enablePlatoonFollower(x, target, leaderId, gap) ==
    sendCommand(x, "enable_platoon_follower", target,
                [role |-> "follower", leader_id |-> leaderId,
                 following_distance |-> gap])
startPlatoon(x, target, leaderId) ==
    sendCommand(x, "start_platoon", target, [leader_id |-> leaderId])

\* requestStatus()
requestStatus(x) ==
    IF ~isConnected(x) THEN [ret |-> FALSE, out |-> <<>>]
    ELSE [ret |-> TRUE, out |-> <<[type |-> "get_status"]>>]

\* The command operations the operator's controls invoke
CommandCalls(x) ==
    {startMission(x, t) : t \in Targets} \cup
    {stopMission(x, t) : t \in Targets} \cup
    {emergencyStop(x, t) : t \in Targets} \cup
    {setVelocity(x, 1, t) : t \in Targets}

----------------------------------------------------------------------------
(***************************************************************************)
(* The subscription registry.  A Set keeps its members in the order they   *)
(* were added; adding a member again leaves it where it is.                *)
(***************************************************************************)
Members(seq) == {seq[i] : i \in DOMAIN seq}
Without(seq, h) == SelectSeq(seq, LAMBDA e : e # h)

\* on(eventType, handler)
on(eh, eventType, handler) ==
    [eh EXCEPT ![eventType] =
        IF handler \in Members(@) THEN @ ELSE Append(@, handler)]

\* The function on() returns: this.eventHandlers.get(eventType)?.delete(handler)
unsubscribe(eh, eventType, handler) ==
    [eh EXCEPT ![eventType] = Without(@, handler)]

\* onMessage(handler)
onMessage(eh, handler) == on(eh, "*", handler)

\* The service's onTelemetry(handler): both message types
subscribeTelemetry(eh, handler) ==
    on(on(eh, "telemetry", handler), "v2v_status", handler)

\* The function the service's onTelemetry returns: unsub1(); unsub2()
unsubscribeTelemetry(eh, handler) ==
    unsubscribe(unsubscribe(eh, "telemetry", handler), "v2v_status", handler)

\* The service's onVehicleStatus(handler)
subscribeVehicleStatus(eh, handler) == on(eh, "vehicle_status", handler)

----------------------------------------------------------------------------
(***************************************************************************)
(* Actions of the channel client.                                          *)
(***************************************************************************)
Observe(op, ret, out) ==
    /\ lastOp' = op
    /\ lastMsg' = NoMsg
    /\ lastResult' = ret
    /\ written' = out
    /\ delivered' = NoDelivery

\* What a command operation returned and wrote
ObserveCommand(op, r) == Observe(op, Val(r.ret), r.out)

\* connect() finds a socket object to create when it needs one
CanConnect(x, throws) ==
    SocketState(x) \in {"OPEN", "CONNECTING"} \/ throws \/ FreeIds(x) # {}

\* Mount effect of App: bridgeService.connect(), then the subscriptions
\* (onStatusChange, onTelemetry, onVehicleStatus).  The status callback is
\* registered after connect() has run.
AppMount ==
    /\ ~mounted
    /\ \E throws \in BOOLEAN :
          LET x == connect(Ctx, throws) IN
          /\ Commit(x)
          /\ CountTimers(x)
          /\ mounted' = TRUE
    /\ eventHandlers' =
          on(subscribeTelemetry(eventHandlers, "App.onTelemetry"),
             "vehicle_status", "App.onVehicleStatus")
    /\ userDisconnected' = FALSE
    /\ Observe("mount", Undef, <<>>)
    /\ UNCHANGED <<closesSinceOpen, explicitRetry, appVars, logVars, panelVars>>

\* The operator calls connect() (handleConnectBridge)
CallConnect ==
    /\ mounted
    /\ \E throws \in BOOLEAN :
          /\ CanConnect(Ctx, throws)
          /\ Commit(connect(Ctx, throws))
          /\ CountTimers(connect(Ctx, throws))
    /\ userDisconnected' = FALSE
    /\ explicitRetry' =
          IF /\ reconnectAttempts = maxReconnectAttempts
             /\ timers.reconnect = 0
             /\ SocketState(Ctx) \notin {"OPEN", "CONNECTING"}
          THEN TRUE ELSE explicitRetry
    /\ Observe("connect", Undef, <<>>)
    /\ UNCHANGED <<mounted, eventHandlers, closesSinceOpen, appVars, logVars,
                   panelVars>>

\* The operator calls disconnect() (handleConnectBridge)
CallDisconnect ==
    /\ mounted
    /\ Commit(disconnect(Ctx))
    /\ CountTimers(disconnect(Ctx))
    /\ userDisconnected' = TRUE
    /\ explicitRetry' = FALSE
    /\ Observe("disconnect", Undef, <<>>)
    /\ UNCHANGED <<mounted, eventHandlers, closesSinceOpen, appVars, logVars,
                   panelVars>>

\* The reconnect timeout fires: this.reconnectTimer = null; this.connect()
ReconnectTimerFires ==
    /\ timers.reconnect > 0
    /\ \E throws \in BOOLEAN :
          LET x == [Ctx EXCEPT !.reconnectTimer = FALSE,
                               !.timers.reconnect = @ - 1] IN
          /\ CanConnect(x, throws)
          /\ Commit(connect(x, throws))
          /\ CountTimers(connect(x, throws))
    /\ Observe("reconnectTimer", Undef, <<>>)
    /\ UNCHANGED <<mounted, eventHandlers, userDisconnected, closesSinceOpen,
                   explicitRetry, appVars, logVars, panelVars>>

\* The heartbeat interval fires: a ping is written when the socket is open
HeartbeatFires ==
    /\ timers.heartbeat > 0
    /\ Observe("heartbeat", Undef,
               IF isConnected(Ctx) THEN <<[type |-> "ping"]>> ELSE <<>>)
    /\ UNCHANGED <<socket, connectionStatus, reconnectAttempts, reconnectTimer,
                   heartbeatTimer, readyState, timers, eventHandlers, mounted,
                   bridgeStatus, userDisconnected, closesSinceOpen,
                   timersSinceOpen, explicitRetry, appVars, logVars, panelVars>>

\* The browser reports socket s open
SocketOpen(s) ==
    /\ readyState[s] = "CONNECTING"
    /\ Commit(onopen([Ctx EXCEPT !.readyState[s] = "OPEN"]))
    /\ closesSinceOpen' = 0
    /\ timersSinceOpen' = 0
    /\ explicitRetry' = FALSE
    /\ Observe("onopen", Undef, <<>>)
    /\ UNCHANGED <<mounted, eventHandlers, userDisconnected, appVars, logVars,
                   panelVars>>

\* The peer starts the closing handshake of socket s: readyState CLOSING,
\* no handler runs
SocketClosing(s) ==
    /\ readyState[s] = "OPEN"
    /\ readyState' = [readyState EXCEPT ![s] = "CLOSING"]
    /\ Observe("closing", Undef, <<>>)
    /\ UNCHANGED <<socket, connectionStatus, reconnectAttempts, reconnectTimer,
                   heartbeatTimer, timers, eventHandlers, mounted, bridgeStatus,
                   userDisconnected, closesSinceOpen, timersSinceOpen,
                   explicitRetry, appVars, logVars, panelVars>>

\* Socket s is closed cleanly: its close event is delivered
SocketClose(s) ==
    /\ readyState[s] \in {"OPEN", "CLOSING"}
    /\ LET x == Collect(onclose([Ctx EXCEPT !.readyState[s] = "CLOSED"])) IN
          Commit(x) /\ CountTimers(x)
    /\ closesSinceOpen' = Min(closesSinceOpen + 1, maxReconnectAttempts + 1)
    /\ explicitRetry' = FALSE
    /\ Observe("onclose", Undef, <<>>)
    /\ UNCHANGED <<mounted, eventHandlers, userDisconnected, appVars, logVars,
                   panelVars>>

\* The connection of socket s fails: the error event, then the close event
SocketError(s) ==
    /\ readyState[s] \in {"CONNECTING", "OPEN", "CLOSING"}
    /\ LET x == Collect(onclose(onerror(
                    [Ctx EXCEPT !.readyState[s] = "CLOSED"]))) IN
          Commit(x) /\ CountTimers(x)
    /\ closesSinceOpen' = Min(closesSinceOpen + 1, maxReconnectAttempts + 1)
    /\ explicitRetry' = FALSE
    /\ Observe("onerror", Undef, <<>>)
    /\ UNCHANGED <<mounted, eventHandlers, userDisconnected, appVars, logVars,
                   panelVars>>

\* A typed command builder is called
CallCommand ==
    /\ mounted
    /\ \E r \in CommandCalls(Ctx) : ObserveCommand("command", r)
    /\ UNCHANGED <<socket, connectionStatus, reconnectAttempts, reconnectTimer,
                   heartbeatTimer, readyState, timers, eventHandlers, mounted,
                   bridgeStatus, userDisconnected, closesSinceOpen,
                   timersSinceOpen, explicitRetry, appVars, logVars, panelVars>>

\* requestStatus() is called (by the App, 500 ms after a status `connected')
CallRequestStatus ==
    /\ mounted
    /\ ObserveCommand("requestStatus", requestStatus(Ctx))
    /\ UNCHANGED <<socket, connectionStatus, reconnectAttempts, reconnectTimer,
                   heartbeatTimer, readyState, timers, eventHandlers, mounted,
                   bridgeStatus, userDisconnected, closesSinceOpen,
                   timersSinceOpen, explicitRetry, appVars, logVars, panelVars>>

NextBridge ==
    \/ AppMount
    \/ CallConnect
    \/ CallDisconnect
    \/ ReconnectTimerFires
    \/ HeartbeatFires
    \/ \E s \in SocketIds : SocketOpen(s)
    \/ \E s \in SocketIds : SocketClosing(s)
    \/ \E s \in SocketIds : SocketClose(s)
    \/ \E s \in SocketIds : SocketError(s)
    \/ CallCommand
    \/ CallRequestStatus

SpecBridge == Init /\ [][NextBridge]_vars

\* The browser runs the callback of a pending timeout
SpecBridgeFair == SpecBridge /\ WF_vars(ReconnectTimerFires)

----------------------------------------------------------------------------
(***************************************************************************)
(* Properties of the channel client (SpecBridge).                          *)
(***************************************************************************)
CloseOps == {"onclose", "onerror"}
CommandOps == {"command", "requestStatus"}
LiveSockets == {s \in SocketIds : readyState[s] \in {"CONNECTING", "OPEN"}}

\* C1: after disconnect(), and until the operator calls connect() again, no
\* reconnect timer is scheduled and no new socket is opened, whatever the
\* retry counter and whenever the closed socket's close event is delivered.
C1_DisconnectSuppressesReconnect ==
    userDisconnected => (~reconnectTimer /\ socket = NULL)

\* C2: the retry counter stays within 0..maxReconnectAttempts; at most
\* maxReconnectAttempts reconnect timers are set between two successful
\* opens; maxReconnectAttempts close events in a row exhaust the counter and
\* a further close event sets no reconnect timer.
C2_ReconnectBound ==
    /\ reconnectAttempts \in 0..maxReconnectAttempts
    /\ timersSinceOpen <= maxReconnectAttempts
    /\ closesSinceOpen >= maxReconnectAttempts
          => reconnectAttempts = maxReconnectAttempts
    /\ (lastOp \in CloseOps /\ closesSinceOpen > maxReconnectAttempts)
          => ~reconnectTimer

C2_Witness ==
    /\ lastOp \in CloseOps
    /\ closesSinceOpen > maxReconnectAttempts
    /\ ~reconnectTimer

\* C4: a command operation called while the connection status is
\* `disconnected' returns false and writes nothing on the transport.
C4_CommandWhileDisconnected ==
    (lastOp \in CommandOps /\ connectionStatus = "disconnected")
        => (lastResult = Val(FALSE) /\ written = <<>>)

C11_OneReconnectTimer ==
    /\ timers.reconnect \in {0, 1}
    /\ reconnectTimer <=> timers.reconnect = 1

\* connect() failed to construct its socket while the timeout set by the one
\* close event so far was pending: scheduleReconnect() returned at its test
\* of this.reconnectTimer, and the counter is still 1
C11_Witness ==
    /\ lastOp = "connect"
    /\ connectionStatus = "error"
    /\ closesSinceOpen = 1
    /\ reconnectAttempts = 1
    /\ timers.reconnect = 1

\* C12: when disconnect() returns no heartbeat interval and no reconnect
\* timeout is pending, this.socket is null and the status is `disconnected'.
C12_DisconnectPostcondition ==
    lastOp = "disconnect"
        => /\ ~heartbeatTimer
           /\ ~reconnectTimer
           /\ timers = [reconnect |-> 0, heartbeat |-> 0]
           /\ socket = NULL
           /\ connectionStatus = "disconnected"

\* disconnect() was called with a socket connecting or open (it is closing
\* now) after failed attempts
C12_Witness ==
    /\ lastOp = "disconnect"
    /\ reconnectAttempts > 0
    /\ \E s \in SocketIds : readyState[s] = "CLOSING"
    /\ timers = [reconnect |-> 0, heartbeat |-> 0]
    /\ socket = NULL

\* The close event of the socket the client holds is delivered in this step
ClosesCurrentSocket ==
    /\ lastOp' \in CloseOps
    /\ socket # NULL
    /\ readyState[socket] # "CLOSED"
    /\ readyState'[socket] = "CLOSED"

\* C13: with the retry counter at its maximum and no timeout pending the
\* client makes no connection attempt of its own; a connect() the operator
\* calls then resumes the automatic recovery: the close event of the socket
\* that connect() created schedules a reconnect attempt.
C13_ExplicitConnectResumes ==
    /\ [][(reconnectAttempts = maxReconnectAttempts /\ timers.reconnect = 0
            /\ socket' # socket /\ socket' # NULL)
           => lastOp' \in {"connect", "mount"}]_vars
    /\ [][(explicitRetry /\ ~userDisconnected /\ ClosesCurrentSocket)
           => reconnectTimer']_vars

\* C14: a close event delivered while disconnect() has not been called and
\* fewer than maxReconnectAttempts attempts are used leaves a reconnect
\* timeout pending, and from then on connect() is called (by the timeout or
\* by the operator) unless disconnect() is.
C14_AutomaticRecovery ==
    /\ [][(lastOp' \in CloseOps /\ ~userDisconnected
            /\ reconnectAttempts < maxReconnectAttempts)
           => reconnectTimer']_vars
    /\ (lastOp \in CloseOps /\ ~userDisconnected /\ reconnectTimer)
          ~> (lastOp \in {"reconnectTimer", "connect", "disconnect"})

\* C15: after every open event the retry counter is 0, the status is
\* `connected' and exactly one heartbeat interval is running.
C15_OpenResets ==
    lastOp = "onopen"
        => /\ reconnectAttempts = 0
           /\ connectionStatus = "connected"
           /\ heartbeatTimer
           /\ timers.heartbeat = 1
           /\ isConnected(Ctx)

\* the socket opened while the reconnect timeout of an earlier failure was
\* still pending
C15_Witness ==
    /\ lastOp = "onopen"
    /\ reconnectTimer
    /\ reconnectAttempts = 0
    /\ timers.heartbeat = 1

\* C16: the heartbeat interval is never running while the status is
\* `disconnected' or `connecting', and it is running whenever the status is
\* `connected' and the socket is open.
C16_HeartbeatOnlyWhileConnected ==
    /\ heartbeatTimer => connectionStatus \notin {"disconnected", "connecting"}
    /\ (connectionStatus = "connected" /\ isConnected(Ctx)) => heartbeatTimer

\* C22: every change of the client's connection status, the first one to
\* `connecting' at start-up included, reaches the App's status callback, so
\* the status the indicator shows is the client's status.
C22_StatusShown ==
    mounted => bridgeStatus = connectionStatus

\* C25: the close event of a socket that is not the client's current socket
\* leaves the heartbeat interval, the status and the reconnect timeout as
\* they are; whenever the current socket is open the status is `connected'.
C25_StaleCloseIgnored ==
    /\ [][(lastOp' \in CloseOps /\ ~ClosesCurrentSocket)
            => UNCHANGED <<heartbeatTimer, connectionStatus, reconnectTimer,
                           reconnectAttempts>>]_vars
    /\ [](isConnected(Ctx) => connectionStatus = "connected")

----------------------------------------------------------------------------
(***************************************************************************)
(* The vehicle state reducer of App.                                       *)
(*                                                                         *)
(* Numbers are integers: speeds in tenths of a metre per second (one tick  *)
(* of the fallback loop changes a speed by accel * dt = 0.1 m/s), poses in *)
(* metres and radians.                                                     *)
(***************************************************************************)
VehicleStatus == {"DISCONNECTED", "INITIALIZING", "IDLE", "ACTIVE",
                  "EMERGENCY_STOP", "STOPPED", "MANUAL"}

\* TelemetryData: the required fields, then the optional ones
RequiredFields == {"x", "y", "theta", "velocity", "battery", "steering",
                   "throttle", "lastUpdate"}
OptionalFields == {"gps_valid", "state", "v2v_active", "v2v_peers",
                   "v2v_protocol", "platoon_enabled", "platoon_is_leader",
                   "platoon_position", "platoon_leader_id",
                   "local_observer_type", "fleet_observer_type",
                   "longitudinal_ctrl_type", "lateral_ctrl_type",
                   "perception_active", "scopes_active"}
TelemetryFields == RequiredFields \cup OptionalFields

\* TelemetryMessage: the Python spelling of four fields
Alias == [theta |-> "th", velocity |-> "v", steering |-> "delta",
          throttle |-> "u"]
AliasKeys == {Alias[f] : f \in DOMAIN Alias}
MsgKeys == {"type", "vehicle_id"} \cup (TelemetryFields \ {"lastUpdate"})
              \cup AliasKeys

\* a ?? b
Coalesce(a, b) == IF a = Undef THEN b ELSE a

\* Mutant: the numeric fields are tested for truthiness, not definedness
updatedTelemetry_Truthy(t, msg, time) ==
    [f \in TelemetryFields |->
        IF f = "lastUpdate" THEN Val(time)
        ELSE IF f \in DOMAIN Alias
        THEN IF msg[f] \notin {Undef, Val(0)}
                  \/ msg[Alias[f]] \notin {Undef, Val(0)}
             THEN Coalesce(msg[f], msg[Alias[f]])
             ELSE t[f]
        ELSE IF f \in RequiredFields
        THEN IF msg[f] \notin {Undef, Val(0)} THEN msg[f] ELSE t[f]
        ELSE IF msg[f] # Undef THEN msg[f] ELSE t[f]]

\* Mutant: only the full field names are read
updatedTelemetry_FullNamesOnly(t, msg, time) ==
    [f \in TelemetryFields |->
        IF f = "lastUpdate" THEN Val(time)
        ELSE IF msg[f] # Undef THEN msg[f] ELSE t[f]]

\* updatedTelemetry of the onTelemetry handler: one spread per field
updatedTelemetry(t, msg, time) ==
    [f \in TelemetryFields |->
        IF f = "lastUpdate" THEN Val(time)
        ELSE IF f \in DOMAIN Alias
        THEN IF msg[f] # Undef \/ msg[Alias[f]] # Undef
             THEN Coalesce(msg[f], msg[Alias[f]])
             ELSE t[f]
        ELSE IF msg[f] # Undef THEN msg[f] ELSE t[f]]

\* Mutant: telemetry for an id that is not shown adds a vehicle
onTelemetry_AddsUnknown(vs, msg, time) ==
    IF \A i \in DOMAIN vs : vs[i].id # msg.vehicle_id
    THEN Append(vs, [id |-> msg.vehicle_id, name |-> msg.vehicle_id,
                     status |-> "IDLE",
                     config |-> [controllerId |-> "pid", estimatorId |-> "ekf",
                                 pathId |-> "default"],
                     targetSpeed |-> 0,
                     telemetry |->
                        updatedTelemetry([f \in TelemetryFields |-> Undef],
                                         msg, time)])
    ELSE [i \in DOMAIN vs |->
            IF vs[i].id = msg.vehicle_id
            THEN [vs[i] EXCEPT !.telemetry = updatedTelemetry(@, msg, time)]
            ELSE vs[i]]

\* Mutant: the state label of the message is mapped into the status
onTelemetry_MapsState(vs, msg, time) ==
    [i \in DOMAIN vs |->
        IF vs[i].id = msg.vehicle_id
        THEN [vs[i] EXCEPT !.telemetry = updatedTelemetry(@, msg, time),
                           !.status = IF msg.state # Undef THEN "ACTIVE"
                                      ELSE @]
        ELSE vs[i]]

\* Mutant: telemetry for a vehicle shown as DISCONNECTED revives it
onTelemetry_Revives(vs, msg, time) ==
    [i \in DOMAIN vs |->
        IF vs[i].id = msg.vehicle_id
        THEN [vs[i] EXCEPT !.telemetry = updatedTelemetry(@, msg, time),
                           !.status = IF @ = "DISCONNECTED" THEN "IDLE" ELSE @]
        ELSE vs[i]]

\* The setVehicles updater of the onTelemetry handler
onTelemetry(vs, msg, time) ==
    [i \in DOMAIN vs |->
        IF vs[i].id = msg.vehicle_id
        THEN [vs[i] EXCEPT !.telemetry = updatedTelemetry(@, msg, time)]
        ELSE vs[i]]

\* `QCar ${msg.vehicle_id.replace('qcar-', '')}`, on the ids of the model
DefaultName(id) ==
    CASE id = "qcar-0" -> "QCar 0"
      [] id = "qcar-1" -> "QCar 1"
      [] OTHER -> id

\* newVehicle of the onVehicleStatus handler
newVehicle(id, time) ==
    [id |-> id,
     name |-> DefaultName(id),
     status |-> "IDLE",
     config |-> [controllerId |-> "pid", estimatorId |-> "ekf",
                 pathId |-> "default"],
     targetSpeed |-> 0,
     telemetry |->
        [f \in TelemetryFields |->
            CASE f = "battery" -> Val(100)
              [] f = "lastUpdate" -> Val(time)
              [] f \in OptionalFields -> Undef
              [] OTHER -> Val(0)]]

\* prev.findIndex(v => v.id === id), 0 for -1
findIndex(vs, id) ==
    IF \E i \in DOMAIN vs : vs[i].id = id
    THEN CHOOSE i \in DOMAIN vs :
            /\ vs[i].id = id
            /\ \A j \in DOMAIN vs : vs[j].id = id => i <= j
    ELSE 0

\* Mutant: a disconnect zeroes the speed of the vehicle
onVehicleStatus_ResetsOnDisconnect(vs, msg, time) ==
    LET existingIndex == findIndex(vs, msg.vehicle_id) IN
    IF msg.status = "connected"
    THEN IF existingIndex > 0
         THEN [i \in DOMAIN vs |->
                 IF i = existingIndex THEN [vs[i] EXCEPT !.status = "IDLE"]
                 ELSE vs[i]]
         ELSE Append(vs, newVehicle(msg.vehicle_id, time))
    ELSE IF existingIndex > 0
         THEN [i \in DOMAIN vs |->
                 IF i = existingIndex
                 THEN [vs[i] EXCEPT !.status = "DISCONNECTED",
                                    !.telemetry.velocity = Val(0)]
                 ELSE vs[i]]
         ELSE vs

\* Mutant: every connect-type message adds a vehicle
onVehicleStatus_AlwaysAdds(vs, msg, time) ==
    LET existingIndex == findIndex(vs, msg.vehicle_id) IN
    IF msg.status = "connected"
    THEN Append(vs, newVehicle(msg.vehicle_id, time))
    ELSE IF existingIndex > 0
         THEN [i \in DOMAIN vs |->
                 IF i = existingIndex
                 THEN [vs[i] EXCEPT !.status = "DISCONNECTED"]
                 ELSE vs[i]]
         ELSE vs

\* The setVehicles updater of the onVehicleStatus handler
onVehicleStatus(vs, msg, time) ==
    LET existingIndex == findIndex(vs, msg.vehicle_id) IN
    IF msg.status = "connected"
    THEN IF existingIndex > 0
         THEN [i \in DOMAIN vs |->
                 IF i = existingIndex THEN [vs[i] EXCEPT !.status = "IDLE"]
                 ELSE vs[i]]
         ELSE Append(vs, newVehicle(msg.vehicle_id, time))
    ELSE IF existingIndex > 0
         THEN [i \in DOMAIN vs |->
                 IF i = existingIndex
                 THEN [vs[i] EXCEPT !.status = "DISCONNECTED"]
                 ELSE vs[i]]
         ELSE vs

\* updateVehiclePhysics(vehicle, REFRESH_RATE_MS / 1000): the vehicles it may
\* return.  The speed moves by accel * dt = one tenth towards its target.
\* With the new speed 0 and the pose inside the map the pose stays as it is;
\* otherwise the displacement (a product of sines and cosines), the bounce
\* and the battery drain (0.005 per tick) are not integers of the model, and
\* every pose and either battery level may result.
updateVehiclePhysics(vehicle, time) ==
    IF vehicle.status # "ACTIVE" /\ vehicle.status # "EMERGENCY_STOP"
    THEN {vehicle}
    ELSE
    LET t == vehicle.telemetry
        x0 == t.x[1]
        y0 == t.y[1]
        v0 == t.velocity[1]
        targetV == IF vehicle.status = "EMERGENCY_STOP" THEN 0
                   ELSE vehicle.targetSpeed
        velocity == IF v0 < targetV THEN Min(v0 + 1, targetV)
                    ELSE Max(v0 - 1, targetV)
        inside == /\ x0 >= 0 /\ x0 <= MAP_WIDTH_METERS
                  /\ y0 >= 0 /\ y0 <= MAP_HEIGHT_METERS
        xs == IF velocity = 0 /\ inside THEN {x0} ELSE 0..MAP_WIDTH_METERS
        ys == IF velocity = 0 /\ inside THEN {y0} ELSE 0..MAP_HEIGHT_METERS
        thetas == IF velocity = 0 /\ inside THEN {t.theta[1]}
                  ELSE {t.theta[1], 0 - t.theta[1], t.theta[1] + 1}
        batteries == IF vehicle.status = "ACTIVE"
                     THEN {t.battery[1], Max(0, t.battery[1] - 1)}
                     ELSE {t.battery[1]}
    IN  {[vehicle EXCEPT !.telemetry =
              [t EXCEPT !.velocity = Val(velocity), !.x = Val(x), !.y = Val(y),
                        !.theta = Val(th), !.battery = Val(b),
                        !.lastUpdate = Val(time)]] :
            x \in xs, y \in ys, th \in thetas, b \in batteries}

\* Mutant: the emergency stop leaves the target speed
tickVehicle_KeepsSpeed(v, time) ==
    IF globalEStop /\ v.status # "EMERGENCY_STOP"
    THEN {[v EXCEPT !.status = "EMERGENCY_STOP"]}
    ELSE IF bridgeStatus # "connected"
    THEN updateVehiclePhysics(v, time)
    ELSE {v}

\* Mutant: the simulator step runs whatever the bridge status
tickVehicle_AlwaysSimulates(v, time) ==
    IF globalEStop /\ v.status # "EMERGENCY_STOP"
    THEN {[v EXCEPT !.status = "EMERGENCY_STOP", !.targetSpeed = 0]}
    ELSE updateVehiclePhysics(v, time)

\* One vehicle of the mock physics loop's map
tickVehicle(v, time) ==
    IF globalEStop /\ v.status # "EMERGENCY_STOP"
    THEN {[v EXCEPT !.status = "EMERGENCY_STOP", !.targetSpeed = 0]}
    ELSE IF bridgeStatus # "connected"
    THEN updateVehiclePhysics(v, time)
    ELSE {v}

----------------------------------------------------------------------------
(***************************************************************************)
(* Inbound messages and operator inputs of the model.                      *)
(***************************************************************************)
FleetIds == {"qcar-0", "qcar-1"}
Names == {"Lead"}
Speeds == {0, 1}

\* A telemetry message for vehicle id carrying the fields of kv
TelemetryMsg(type, id, kv) ==
    [k \in MsgKeys |->
        IF k = "type" THEN type
        ELSE IF k = "vehicle_id" THEN id
        ELSE IF k \in DOMAIN kv THEN kv[k]
        ELSE Undef]

One(k, val) == [j \in {k} |-> val]
Two(k1, val1, k2, val2) == [j \in {k1, k2} |-> IF j = k1 THEN val1 ELSE val2]

\* vehicle_status messages
StatusMsgs(ids) ==
    {[type |-> "vehicle_status", vehicle_id |-> id, status |-> st] :
        id \in ids, st \in {"connected", "disconnected"}}

\* Messages of the fleet specification: pose and speed of either vehicle
FleetMsgs ==
    {TelemetryMsg("telemetry", id, Two("x", Val(val), "velocity", Val(val))) :
        id \in FleetIds, val \in {0, 1}}

\* Statuses the fleet specification hands to the status callback: the tick
\* only tells `connected' from the rest
FleetBridgeStatus == {"connected", "disconnected"}

----------------------------------------------------------------------------
(***************************************************************************)
(* Actions of the App component.                                           *)
(***************************************************************************)
ObserveMsg(op, msg) ==
    /\ lastOp' = op
    /\ lastMsg' = msg
    /\ lastResult' = Undef
    /\ written' = <<>>
    /\ delivered' = NoDelivery

serviceVars == <<socket, connectionStatus, reconnectAttempts, reconnectTimer,
                 heartbeatTimer, readyState, timers, eventHandlers,
                 userDisconnected, closesSinceOpen, timersSinceOpen,
                 explicitRetry>>

\* The onTelemetry subscription receives msg
DeliverTelemetry(msg) ==
    /\ mounted
    /\ vehicles' = onTelemetry(vehicles, msg, now)
    /\ ObserveMsg("telemetry", msg)
    /\ UNCHANGED <<serviceVars, mounted, bridgeStatus, globalEStop, v2vActive,
                   now, logVars, panelVars>>

\* The onVehicleStatus subscription receives msg
DeliverVehicleStatus(msg) ==
    /\ mounted
    /\ vehicles' = onVehicleStatus(vehicles, msg, now)
    /\ ObserveMsg("vehicle_status", msg)
    /\ UNCHANGED <<serviceVars, mounted, bridgeStatus, globalEStop, v2vActive,
                   now, logVars, panelVars>>

\* The onStatusChange subscription is told a status: setBridgeStatus(status)
StatusCallback(status) ==
    /\ mounted
    /\ bridgeStatus' = status
    /\ Observe("status", Undef, <<>>)
    /\ UNCHANGED <<serviceVars, mounted, vehicles, globalEStop, v2vActive,
                   now, logVars, panelVars>>

\* The interval of the mock physics loop fires
Tick ==
    /\ mounted
    /\ \E vs \in [DOMAIN vehicles ->
                    UNION {tickVehicle(vehicles[i], now) : i \in DOMAIN vehicles}] :
          /\ \A i \in DOMAIN vehicles : vs[i] \in tickVehicle(vehicles[i], now)
          /\ vehicles' = vs
    /\ Observe("tick", Undef, <<>>)
    /\ UNCHANGED <<serviceVars, mounted, bridgeStatus, globalEStop, v2vActive,
                   now, logVars, panelVars>>

\* toggleGlobalEStop
ToggleGlobalEStop ==
    /\ mounted
    /\ globalEStop' = ~globalEStop
    /\ ObserveCommand("toggleEStop", emergencyStop(Ctx, "all"))
    /\ UNCHANGED <<serviceVars, mounted, bridgeStatus, vehicles, v2vActive,
                   now, logVars, panelVars>>

\* onSpeedChange of a vehicle card
SpeedChange(id, speed) ==
    /\ mounted
    /\ vehicles' = [i \in DOMAIN vehicles |->
                      IF vehicles[i].id = id
                      THEN [vehicles[i] EXCEPT !.targetSpeed = speed]
                      ELSE vehicles[i]]
    /\ ObserveCommand("speed", setVelocity(Ctx, speed, id))
    /\ UNCHANGED <<serviceVars, mounted, bridgeStatus, globalEStop, v2vActive,
                   now, logVars, panelVars>>

\* The statuses the buttons of a vehicle card pass to onStatusChange
CardStatuses == {"ACTIVE", "STOPPED", "EMERGENCY_STOP"}

\* What onStatusChange of a vehicle card sends for a status
CardCommand(x, id, status) ==
    CASE status = "ACTIVE" -> startMission(x, id)
      [] status = "STOPPED" -> stopMission(x, id)
      [] status = "EMERGENCY_STOP" -> emergencyStop(x, id)

\* onStatusChange of a vehicle card: the command is sent (and logged); the
\* vehicle set is not touched
CardStatusChange(id, status) ==
    /\ mounted
    /\ lastOp' = "statusChange"
    /\ lastMsg' = [type |-> "statusChange", vehicle_id |-> id,
                   status |-> status]
    /\ lastResult' = Val(CardCommand(Ctx, id, status).ret)
    /\ written' = CardCommand(Ctx, id, status).out
    /\ delivered' = NoDelivery
    /\ UNCHANGED <<serviceVars, mounted, bridgeStatus, vehicles, globalEStop,
                   v2vActive, now, logVars, panelVars>>

\* handleVehicleNameChange
NameChange(id, newName) ==
    /\ mounted
    /\ vehicles' = [i \in DOMAIN vehicles |->
                      IF vehicles[i].id = id
                      THEN [vehicles[i] EXCEPT !.name = newName]
                      ELSE vehicles[i]]
    /\ Observe("rename", Undef, <<>>)
    /\ UNCHANGED <<serviceVars, mounted, bridgeStatus, globalEStop, v2vActive,
                   now, logVars, panelVars>>

\* Time passes
ClockTick ==
    /\ now < MaxClock
    /\ now' = now + 1
    /\ Observe("clock", Undef, <<>>)
    /\ UNCHANGED <<serviceVars, mounted, bridgeStatus, vehicles, globalEStop,
                   v2vActive, logVars, panelVars>>

ShownIds == {vehicles[i].id : i \in DOMAIN vehicles}

NextFleet ==
    \/ AppMount
    \/ \E msg \in FleetMsgs : DeliverTelemetry(msg)
    \/ \E msg \in StatusMsgs(FleetIds) : DeliverVehicleStatus(msg)
    \/ \E st \in FleetBridgeStatus : StatusCallback(st)
    \/ Tick
    \/ ToggleGlobalEStop
    \/ \E id \in ShownIds, speed \in Speeds : SpeedChange(id, speed)
    \/ \E id \in ShownIds, name \in Names : NameChange(id, name)
    \/ \E id \in ShownIds, st \in CardStatuses : CardStatusChange(id, st)

SpecFleet == Init /\ [][NextFleet]_vars

(***************************************************************************)
(* The merge specification: one known vehicle, "qcar-0", and telemetry     *)
(* messages that carry one field under either spelling, both spellings of  *)
(* one field, or nothing; "qcar-1" is never announced.                     *)
(***************************************************************************)
NumberKeys == {"x"} \cup DOMAIN Alias \cup AliasKeys

MergeMsgs ==
    {TelemetryMsg("telemetry", "qcar-0", One(k, Val(val))) :
        k \in NumberKeys, val \in {0, 1}}
    \cup {TelemetryMsg("telemetry", "qcar-0", One("battery", Val(0)))}
    \cup {TelemetryMsg("telemetry", "qcar-0", One("gps_valid", Val(b))) :
            b \in BOOLEAN}
    \cup {TelemetryMsg("v2v_status", "qcar-0",
                       One("state", Val("FOLLOWING_PATH")))}
    \cup {TelemetryMsg("telemetry", "qcar-0",
                       Two(f, Val(val), Alias[f], Val(1 - val))) :
            f \in DOMAIN Alias, val \in {0, 1}}
    \cup {TelemetryMsg("v2v_status", "qcar-0", NoPayload)}
    \cup {TelemetryMsg("telemetry", "qcar-1", One("x", Val(1)))}

MergeStatusMsgs ==
    {[type |-> "vehicle_status", vehicle_id |-> "qcar-0",
      status |-> "connected"]}

NextMerge ==
    \/ AppMount
    \/ ClockTick
    \/ \E msg \in MergeStatusMsgs : DeliverVehicleStatus(msg)
    \/ \E msg \in MergeMsgs : DeliverTelemetry(msg)

SpecMerge == Init /\ [][NextMerge]_vars

(***************************************************************************)
(* The snapshot specification: both vehicles connect and disconnect, are   *)
(* renamed and given target speeds, and receive telemetry and v2v_status   *)
(* messages that carry a raw state label or a speed.                       *)
(***************************************************************************)
StateLabels == {"FOLLOWING_PATH", "STOPPED"}

SnapshotMsgs ==
    {TelemetryMsg("v2v_status", id, One("state", Val(l))) :
        id \in FleetIds, l \in StateLabels}
    \cup {TelemetryMsg("telemetry", id, One("velocity", Val(1))) :
            id \in FleetIds}

NextSnapshot ==
    \/ AppMount
    \/ \E msg \in StatusMsgs(FleetIds) : DeliverVehicleStatus(msg)
    \/ \E msg \in SnapshotMsgs : DeliverTelemetry(msg)
    \/ \E id \in ShownIds, speed \in Speeds : SpeedChange(id, speed)
    \/ \E id \in ShownIds, name \in Names : NameChange(id, name)

SpecSnapshot == Init /\ [][NextSnapshot]_vars

(***************************************************************************)
(* The command specification: the channel opens and closes while the       *)
(* operator's controls call the command builders, sendCommand with a       *)
(* payload of their own, requestStatus and the global emergency stop.      *)
(***************************************************************************)
Actions == {"start", "disable_platoon"}
Payloads == {NoPayload, [leader_id |-> "0"], [type |-> "status"]}

\* sendCommand(action, target, payload) is called
CallSendCommand(action, target, payload) ==
    /\ mounted
    /\ lastOp' = "sendCommand"
    /\ lastMsg' = [type |-> "call", action |-> action, target |-> target,
                   payload |-> payload]
    /\ lastResult' = Val(sendCommand(Ctx, action, target, payload).ret)
    /\ written' = sendCommand(Ctx, action, target, payload).out
    /\ delivered' = NoDelivery
    /\ UNCHANGED <<serviceVars, mounted, bridgeStatus, appVars, logVars,
                   panelVars>>

NextCommand ==
    \/ AppMount
    \/ \E s \in SocketIds : SocketOpen(s)
    \/ \E s \in SocketIds : SocketClose(s)
    \/ CallCommand
    \/ CallRequestStatus
    \/ \E a \in Actions, t \in Targets, p \in Payloads :
          CallSendCommand(a, t, p)
    \/ ToggleGlobalEStop

SpecCommand == Init /\ [][NextCommand]_vars

\* C23: every record a command operation writes is one flat record with a
\* type (the action name) and a target (a vehicle id or "all"), the named
\* parameters beside them at the top level.
C23_FlatCommandRecord ==
    (lastOp \in CommandOps \cup {"sendCommand"} /\ written # <<>>)
        => /\ Len(written) = 1
           /\ {"type", "target"} \subseteq DOMAIN written[1]
           /\ written[1].target \in Targets
           /\ lastOp = "sendCommand"
                 => /\ written[1].type = lastMsg.action
                    /\ written[1].target = lastMsg.target
                    /\ \A k \in DOMAIN lastMsg.payload :
                          written[1][k] = lastMsg.payload[k]

\* C30: toggleGlobalEStop sends the emergency_stop broadcast when it engages
\* the flag (the channel being open) and sends nothing when it releases it.
C30_BroadcastOnEngageOnly ==
    lastOp = "toggleEStop"
        => IF globalEStop
           THEN isConnected(Ctx)
                   => written = <<fullCommand("emergency_stop", "all",
                                              NoPayload)>>
           ELSE written = <<>>

----------------------------------------------------------------------------
(***************************************************************************)
(* The panels of the right column.  ManualControlPanel is rendered while   *)
(* rightPanelMode is 'MANUAL' and a vehicle is selected, with the selected *)
(* vehicle's id as its vehicleId; PlatoonControl while rightPanelMode is   *)
(* 'PLATOON'.  A panel that is rendered again starts from its initial      *)
(* state.  Stick positions and pedal values are in tenths.                 *)
(***************************************************************************)
ThrottleInputs == {0, 3}
SteeringInputs == {0, 5}
ControlTypes == {"joystick", "keyboard"}

\* The frames a sequence of command calls wrote, in order
RECURSIVE Flatten(_)
Flatten(calls) ==
    IF calls = <<>> THEN <<>> ELSE Head(calls).out \o Flatten(Tail(calls))

\* The targets manual mode is enabled for after the frames of `out'
ManualEnabledAfter(enabled, out) ==
    {t \in FleetIds :
        LET Idx == {i \in DOMAIN out :
                      /\ out[i].target = t
                      /\ out[i].type \in {"enable_manual_mode",
                                          "disable_manual_mode"}}
        IN  IF Idx = {} THEN t \in enabled
            ELSE out[CHOOSE i \in Idx : \A j \in Idx : j <= i].type
                    = "enable_manual_mode"}

\* What a handler of a panel wrote
ObservePanel(op, out) ==
    /\ lastOp' = op
    /\ lastMsg' = NoMsg
    /\ lastResult' = Undef
    /\ written' = out
    /\ delivered' = NoDelivery

ManualShown == rightPanel.mode = "MANUAL" /\ rightPanel.selectedVehicleId # ""

\* The effects of ManualControlPanel that run when it mounts or its
\* vehicleId changes: enableManualMode(vehicleId, mode) of the first effect,
\* then of the second
ManualMountEffects(x, vehicleId, mode) ==
    <<enableManualMode(x, vehicleId, mode),
      enableManualMode(x, vehicleId, mode)>>

\* The cleanup of the first effect: disableManualMode(vehicleId)
ManualCleanup(x, vehicleId) == <<disableManualMode(x, vehicleId)>>

\* The effect of App that selects the first vehicle when none is selected
AutoSelect ==
    /\ mounted
    /\ Len(vehicles) > 0
    /\ rightPanel.selectedVehicleId = ""
    /\ rightPanel' = [rightPanel EXCEPT !.selectedVehicleId = vehicles[1].id]
    /\ ObservePanel("autoSelect", <<>>)
    /\ UNCHANGED <<serviceVars, mounted, bridgeStatus, appVars, logVars,
                   manualPanel, platoonPanel, wire>>

\* onSelect of a vehicle card: the vehicle is selected; the manual panel
\* stays and gets the new vehicleId (cleanup for the old id, effects for the
\* new one), any other panel gives way to the details view
SelectVehicle(id) ==
    /\ mounted
    /\ LET old == rightPanel.selectedVehicleId
           out == IF ManualShown /\ id # old
                  THEN Flatten(ManualCleanup(Ctx, old)
                               \o ManualMountEffects(Ctx, id, manualPanel.mode))
                  ELSE <<>>
       IN  /\ rightPanel' =
                 [mode |-> IF rightPanel.mode = "MANUAL" THEN "MANUAL"
                           ELSE "DETAILS",
                  selectedVehicleId |-> id]
           /\ ObservePanel("selectVehicle", out)
           /\ wire' = [wire EXCEPT !.manualEnabled = ManualEnabledAfter(@, out)]
    /\ platoonPanel' = NewPlatoonPanel
    /\ UNCHANGED <<serviceVars, mounted, bridgeStatus, appVars, logVars,
                   manualPanel>>

\* The Manual Control button of the details view
OpenManual ==
    /\ mounted
    /\ rightPanel.mode = "DETAILS"
    /\ rightPanel.selectedVehicleId \in ShownIds
    /\ rightPanel' = [rightPanel EXCEPT !.mode = "MANUAL"]
    /\ manualPanel' = NewManualPanel
    /\ LET out == Flatten(ManualMountEffects(Ctx, rightPanel.selectedVehicleId,
                                             NewManualPanel.mode))
       IN  /\ ObservePanel("openManual", out)
           /\ wire' = [wire EXCEPT !.manualEnabled = ManualEnabledAfter(@, out)]
    /\ UNCHANGED <<serviceVars, mounted, bridgeStatus, appVars, logVars,
                   platoonPanel>>

\* onClose of the manual panel: the details view; the panel unmounts
CloseManual ==
    /\ ManualShown
    /\ rightPanel' = [rightPanel EXCEPT !.mode = "DETAILS"]
    /\ manualPanel' = NewManualPanel
    /\ LET out == Flatten(ManualCleanup(Ctx, rightPanel.selectedVehicleId))
       IN  /\ ObservePanel("closeManual", out)
           /\ wire' = [wire EXCEPT !.manualEnabled = ManualEnabledAfter(@, out)]
    /\ UNCHANGED <<serviceVars, mounted, bridgeStatus, appVars, logVars,
                   platoonPanel>>

\* The mode switcher: setMode(type), then the second effect
SetMode(type) ==
    /\ ManualShown
    /\ type # manualPanel.mode
    /\ manualPanel' = [manualPanel EXCEPT !.mode = type]
    /\ LET out == enableManualMode(Ctx, rightPanel.selectedVehicleId, type).out
       IN  /\ ObservePanel("setMode", out)
           /\ wire' = [wire EXCEPT !.manualEnabled = ManualEnabledAfter(@, out)]
    /\ UNCHANGED <<serviceVars, mounted, bridgeStatus, appVars, logVars,
                   rightPanel, platoonPanel>>

\* handleThrottleMove (y the stick's position) and handleThrottleStop (y = 0)
ThrottleMove(y) ==
    /\ ManualShown
    /\ manualPanel.mode = "joystick"
    /\ manualPanel' = [manualPanel EXCEPT !.throttle = y]
    /\ ObservePanel("manualControl",
                    sendManualControl(Ctx, y, manualPanel.steering,
                                      rightPanel.selectedVehicleId).out)
    /\ UNCHANGED <<serviceVars, mounted, bridgeStatus, appVars, logVars,
                   rightPanel, platoonPanel, wire>>

\* handleSteeringMove (x the stick's position) and handleSteeringStop (x = 0)
SteeringMove(x) ==
    /\ ManualShown
    /\ manualPanel.mode = "joystick"
    /\ manualPanel' = [manualPanel EXCEPT !.steering = x]
    /\ ObservePanel("manualControl",
                    sendManualControl(Ctx, manualPanel.throttle, x,
                                      rightPanel.selectedVehicleId).out)
    /\ UNCHANGED <<serviceVars, mounted, bridgeStatus, appVars, logVars,
                   rightPanel, platoonPanel, wire>>

\* The 50 ms interval of the keyboard mode, with the keys held giving the
\* targets
KeyboardInterval(targetThrottle, targetSteering) ==
    /\ ManualShown
    /\ manualPanel.mode = "keyboard"
    /\ manualPanel' = [manualPanel EXCEPT !.throttle = targetThrottle,
                                          !.steering = targetSteering]
    /\ ObservePanel("manualControl",
                    sendManualControl(Ctx, targetThrottle, targetSteering,
                                      rightPanel.selectedVehicleId).out)
    /\ UNCHANGED <<serviceVars, mounted, bridgeStatus, appVars, logVars,
                   rightPanel, platoonPanel, wire>>

\* connect-type messages announce the vehicles
ConnectMsgs ==
    {[type |-> "vehicle_status", vehicle_id |-> id, status |-> "connected"] :
        id \in FleetIds}

NextManual ==
    \/ AppMount
    \/ \E s \in SocketIds : SocketOpen(s)
    \/ \E s \in SocketIds : SocketClose(s)
    \/ \E msg \in ConnectMsgs : DeliverVehicleStatus(msg)
    \/ AutoSelect
    \/ \E id \in ShownIds : SelectVehicle(id)
    \/ OpenManual
    \/ CloseManual
    \/ \E type \in ControlTypes : SetMode(type)
    \/ \E y \in ThrottleInputs : ThrottleMove(y)
    \/ \E x \in SteeringInputs : SteeringMove(x)
    \/ \E t \in ThrottleInputs, st \in SteeringInputs : KeyboardInterval(t, st)

SpecManual == Init /\ [][NextManual]_vars

\* C27: every manual_control record written is for a vehicle for which an
\* enable_manual_mode record was written before it and no
\* disable_manual_mode record since, also when the panel was opened with the
\* channel closed and the channel opened later.
C27_ManualControlAfterEnable ==
    \A i \in DOMAIN written :
        written[i].type = "manual_control"
            => written[i].target \in wire.manualEnabled

\* parseInt(leaderId.replace(/\D/g, '')), on the ids of the model
VehicleNumber(id) ==
    CASE id = "qcar-0" -> 0
      [] id = "qcar-1" -> 1

\* The gap the panel starts with (metres, in tenths)
DefaultGap == 10

PlatoonShown == rightPanel.mode = "PLATOON"

\* The Platoon button of App: the platoon panel replaces what is shown (the
\* manual panel unmounts)
OpenPlatoon ==
    /\ mounted
    /\ ~PlatoonShown
    /\ rightPanel' = [rightPanel EXCEPT !.mode = "PLATOON"]
    /\ platoonPanel' = NewPlatoonPanel
    /\ manualPanel' = NewManualPanel
    /\ LET out == IF ManualShown
                  THEN Flatten(ManualCleanup(Ctx, rightPanel.selectedVehicleId))
                  ELSE <<>>
       IN  /\ ObservePanel("openPlatoon", out)
           /\ wire' = [wire EXCEPT !.manualEnabled = ManualEnabledAfter(@, out)]
    /\ UNCHANGED <<serviceVars, mounted, bridgeStatus, appVars, logVars>>

\* onClose of the platoon panel: the details view; the panel unmounts, and a
\* timeout of handleSetup that fires later finds no component
ClosePlatoon ==
    /\ PlatoonShown
    /\ rightPanel' = [rightPanel EXCEPT !.mode = "DETAILS"]
    /\ platoonPanel' = NewPlatoonPanel
    /\ ObservePanel("closePlatoon", <<>>)
    /\ UNCHANGED <<serviceVars, mounted, bridgeStatus, appVars, logVars,
                   manualPanel, wire>>

\* onChange of the leader select (disabled while the status is 'active'):
\* the leader is set ("" for `Choose Leader') and the followers are reset
SelectLeader(id) ==
    /\ PlatoonShown
    /\ platoonPanel.status # "active"
    /\ id # platoonPanel.leaderId
    /\ platoonPanel' = [platoonPanel EXCEPT !.leaderId = id,
                                            !.followers = <<>>]
    /\ ObservePanel("selectLeader", <<>>)
    /\ UNCHANGED <<serviceVars, mounted, bridgeStatus, appVars, logVars,
                   rightPanel, manualPanel, wire>>

\* toggleFollower(id), from the list of the vehicles other than the leader
toggleFollower(prev, id) ==
    IF id \in Members(prev) THEN Without(prev, id) ELSE Append(prev, id)

ToggleFollower(id) ==
    /\ PlatoonShown
    /\ platoonPanel.status # "active"
    /\ id # platoonPanel.leaderId
    /\ platoonPanel' = [platoonPanel EXCEPT
                           !.followers = toggleFollower(@, id)]
    /\ ObservePanel("toggleFollower", <<>>)
    /\ UNCHANGED <<serviceVars, mounted, bridgeStatus, appVars, logVars,
                   rightPanel, manualPanel, wire>>

\* What handleSetup sends: the leader first, then every follower
handleSetup(x, leaderId, followers, gap) ==
    <<enablePlatoonLeader(x, leaderId)>>
    \o [i \in DOMAIN followers |->
          enablePlatoonFollower(x, followers[i], VehicleNumber(leaderId), gap)]

\* Deploy Configuration (shown while the status is 'idle' or 'configuring',
\* disabled without a leader or without followers): handleSetup
HandleSetup ==
    /\ PlatoonShown
    /\ platoonPanel.status \in {"idle", "configuring"}
    /\ platoonPanel.leaderId # ""
    /\ platoonPanel.followers # <<>>
    /\ platoonPanel.readyTimers < MaxReadyTimers
    /\ platoonPanel' = [platoonPanel EXCEPT !.status = "configuring",
                                            !.readyTimers = @ + 1]
    /\ LET out == Flatten(handleSetup(Ctx, platoonPanel.leaderId,
                                      platoonPanel.followers, DefaultGap))
       IN  /\ ObservePanel("deploy", out)
           /\ wire' = [wire EXCEPT !.platoonLeader =
                         IF \E i \in DOMAIN out :
                               /\ out[i].type = "enable_platoon_leader"
                               /\ out[i].target = platoonPanel.leaderId
                         THEN platoonPanel.leaderId ELSE ""]
    /\ UNCHANGED <<serviceVars, mounted, bridgeStatus, appVars, logVars,
                   rightPanel, manualPanel>>

\* A timeout of handleSetup fires: setStatus('ready')
ReadyTimerFires ==
    /\ PlatoonShown
    /\ platoonPanel.readyTimers > 0
    /\ platoonPanel' = [platoonPanel EXCEPT !.status = "ready",
                                            !.readyTimers = @ - 1]
    /\ ObservePanel("readyTimer", <<>>)
    /\ UNCHANGED <<serviceVars, mounted, bridgeStatus, appVars, logVars,
                   rightPanel, manualPanel, wire>>

\* START PLATOON (shown while the status is 'ready'): handleStart
HandleStart ==
    /\ PlatoonShown
    /\ platoonPanel.status = "ready"
    /\ IF platoonPanel.leaderId = ""
       THEN /\ ObservePanel("startPlatoon", <<>>)
            /\ UNCHANGED platoonPanel
       ELSE /\ ObservePanel("startPlatoon",
                            startPlatoon(Ctx, platoonPanel.leaderId,
                                VehicleNumber(platoonPanel.leaderId)).out)
            /\ platoonPanel' = [platoonPanel EXCEPT !.status = "active"]
    /\ UNCHANGED <<serviceVars, mounted, bridgeStatus, appVars, logVars,
                   rightPanel, manualPanel, wire>>

\* What handleDisband sends: disable_platoon to the leader and the followers
handleDisband(x, leaderId, followers) ==
    [i \in DOMAIN (<<leaderId>> \o followers) |->
        sendCommand(x, "disable_platoon", (<<leaderId>> \o followers)[i],
                    NoPayload)]

\* Cancel / Disband (status 'ready') and DISBAND PLATOON (status 'active')
HandleDisband ==
    /\ PlatoonShown
    /\ platoonPanel.status \in {"ready", "active"}
    /\ platoonPanel' = [platoonPanel EXCEPT !.status = "idle"]
    /\ ObservePanel("disband",
                    Flatten(handleDisband(Ctx, platoonPanel.leaderId,
                                          platoonPanel.followers)))
    /\ UNCHANGED <<serviceVars, mounted, bridgeStatus, appVars, logVars,
                   rightPanel, manualPanel, wire>>

NextPlatoon ==
    \/ AppMount
    \/ \E s \in SocketIds : SocketOpen(s)
    \/ \E s \in SocketIds : SocketClose(s)
    \/ \E msg \in ConnectMsgs : DeliverVehicleStatus(msg)
    \/ OpenPlatoon
    \/ ClosePlatoon
    \/ \E id \in ShownIds \cup {""} : SelectLeader(id)
    \/ \E id \in ShownIds : ToggleFollower(id)
    \/ HandleSetup
    \/ ReadyTimerFires
    \/ HandleStart
    \/ HandleDisband

SpecPlatoon == Init /\ [][NextPlatoon]_vars

\* C28: a start_platoon record is written only to the vehicle to which the
\* most recent Deploy Configuration (whose follower list is not empty) wrote
\* enable_platoon_leader, also after the selected leader was changed.
C28_StartOnlyConfiguredLeader ==
    \A i \in DOMAIN written :
        written[i].type = "start_platoon"
            => written[i].target = wire.platoonLeader

----------------------------------------------------------------------------
(***************************************************************************)
(* Inbound dispatch.  The text of a frame is a sequence of tokens; a JSON  *)
(* object is "{", then key ":" value pairs separated by ",", then "}".     *)
(***************************************************************************)
Punctuation == {"{", "}", ":", ","}

\* The tokens between the braces are key ":" value "," key ":" value ...
IsMemberList(body) ==
    \/ Len(body) = 0
    \/ /\ Len(body) % 4 = 3
       /\ \A i \in DOMAIN body :
             CASE i % 4 = 2 -> body[i] = ":"
               [] i % 4 = 0 -> body[i] = ","
               [] OTHER -> body[i] \notin Punctuation

IsObjectText(data) ==
    /\ Len(data) >= 2
    /\ data[1] = "{"
    /\ data[Len(data)] = "}"
    /\ IsMemberList(SubSeq(data, 2, Len(data) - 1))

\* The object an object text denotes: of a repeated key the last value
ObjectOf(data) ==
    LET body == SubSeq(data, 2, Len(data) - 1)
        KeyAt == {i \in DOMAIN body : i % 4 = 1}
        Last(k) == CHOOSE i \in KeyAt :
                      /\ body[i] = k
                      /\ \A j \in KeyAt : body[j] = k => j <= i
    IN  [k \in {body[i] : i \in KeyAt} |-> body[Last(k) + 2]]

\* JSON.parse(data): `ok' is false when it throws a SyntaxError; `isObject'
\* is false for the value null
JSONparse(data) ==
    IF data = <<"null">>
    THEN [ok |-> TRUE, isObject |-> FALSE, value |-> NoPayload]
    ELSE IF IsObjectText(data)
    THEN [ok |-> TRUE, isObject |-> TRUE, value |-> ObjectOf(data)]
    ELSE [ok |-> FALSE, isObject |-> FALSE, value |-> NoPayload]

\* The handlers registered for message.type (none for a type without a set,
\* and none when the object has no `type')
TypeHandlers(eh, message) ==
    IF "type" \in DOMAIN message /\ message.type \in DOMAIN eh
    THEN eh[message.type] ELSE <<>>

\* Mutant: handleMessage() without its try/catch
handleMessage_NoCatch(eh, data) ==
    LET parsed == JSONparse(data) IN
    IF ~parsed.ok \/ ~parsed.isObject
    THEN [invoked |-> <<>>, raised |-> TRUE]
    ELSE [invoked |-> TypeHandlers(eh, parsed.value) \o eh["*"],
          raised |-> FALSE]

\* Mutant: handleMessage() without the wildcard handlers
handleMessage_TypeOnly(eh, data) ==
    LET parsed == JSONparse(data) IN
    IF ~parsed.ok \/ ~parsed.isObject
    THEN NoDelivery
    ELSE [invoked |-> TypeHandlers(eh, parsed.value), raised |-> FALSE]

\* handleMessage(data): the handlers invoked, in order.  A SyntaxError of
\* JSON.parse and the TypeError of reading `type' of null are caught.
handleMessage(eh, data) ==
    LET parsed == JSONparse(data) IN
    IF ~parsed.ok \/ ~parsed.isObject
    THEN NoDelivery
    ELSE [invoked |-> TypeHandlers(eh, parsed.value) \o eh["*"],
          raised |-> FALSE]

\* handleMessage(data) when the handlers of `throwing' throw: forEach stops
\* at the first of them, the catch block takes the exception, and the
\* handlers after it (of the type's set and the wildcard set) are not called
handleMessageThrowing(eh, data, throwing) ==
    LET parsed == JSONparse(data) IN
    IF ~parsed.ok \/ ~parsed.isObject
    THEN NoDelivery
    ELSE LET all == TypeHandlers(eh, parsed.value) \o eh["*"]
             Throws == {i \in DOMAIN all : all[i] \in throwing}
             last == IF Throws = {} THEN Len(all)
                     ELSE CHOOSE i \in Throws : \A j \in Throws : i <= j
         IN  [invoked |-> SubSeq(all, 1, last), raised |-> FALSE]

\* The number a value token denotes
NumberOf(token) == IF token = "1" THEN 1 ELSE 0

\* message.k of a parsed object, "" for undefined
Field(message, k) == IF k \in DOMAIN message THEN message[k] ELSE ""

\* The parsed object as the App's handlers read it
AsMessage(message) ==
    IF Field(message, "type") = "vehicle_status"
    THEN [type |-> "vehicle_status",
          vehicle_id |-> Field(message, "vehicle_id"),
          status |-> Field(message, "status")]
    ELSE [k \in MsgKeys |->
            IF k \in {"type", "vehicle_id"} THEN Field(message, k)
            ELSE IF k \in DOMAIN message THEN Val(NumberOf(message[k]))
            ELSE Undef]

\* The App's handlers among those invoked update the vehicle set
AppHandlers(invoked, message, vs, time) ==
    IF "App.onTelemetry" \in Members(invoked)
    THEN onTelemetry(vs, AsMessage(message), time)
    ELSE IF "App.onVehicleStatus" \in Members(invoked)
    THEN onVehicleStatus(vs, AsMessage(message), time)
    ELSE vs

\* Handlers other than the App's own
Subscribers == {"h1", "h2"}

\* Frames the peer sends
Frame(type) == <<"{", "type", ":", type, "}">>
FrameFor(type, id, k, v) ==
    <<"{", "type", ":", type, ",", "vehicle_id", ":", id, ",", k, ":", v, "}">>

WellFormedFrames ==
    {FrameFor("telemetry", "qcar-0", "v", "1"),
     FrameFor("v2v_status", "qcar-0", "v", "1"),
     FrameFor("vehicle_status", "qcar-0", "status", "connected"),
     Frame("ack"), Frame("*"), <<"{", "}">>}

MalformedFrames ==
    {<<>>, <<"{", "type", ":", "telemetry">>, <<"null">>}

Frames == WellFormedFrames \cup MalformedFrames

\* What the last operation did to the registry or received
ObserveDispatch(op, msg, d) ==
    /\ lastOp' = op
    /\ lastMsg' = msg
    /\ lastResult' = Undef
    /\ written' = <<>>
    /\ delivered' = d

connectionVars == <<socket, connectionStatus, reconnectAttempts,
                    reconnectTimer, heartbeatTimer, readyState, timers,
                    userDisconnected, closesSinceOpen, timersSinceOpen,
                    explicitRetry>>

\* A handler is registered through on, onMessage, onTelemetry or
\* onVehicleStatus
Subscribe(h) ==
    /\ mounted
    /\ \/ \E t \in EventTypes : eventHandlers' = on(eventHandlers, t, h)
       \/ eventHandlers' = onMessage(eventHandlers, h)
       \/ eventHandlers' = subscribeTelemetry(eventHandlers, h)
       \/ eventHandlers' = subscribeVehicleStatus(eventHandlers, h)
    /\ ObserveDispatch("subscribe", NoMsg, NoDelivery)
    /\ UNCHANGED <<connectionVars, mounted, bridgeStatus, appVars, logVars,
                   panelVars>>

\* A function returned by a registration is called
Unsubscribe(h) ==
    /\ mounted
    /\ \/ \E t \in EventTypes :
             /\ h \in Members(eventHandlers[t])
             /\ eventHandlers' = unsubscribe(eventHandlers, t, h)
       \/ /\ h \in Members(eventHandlers["telemetry"])
          /\ h \in Members(eventHandlers["v2v_status"])
          /\ eventHandlers' = unsubscribeTelemetry(eventHandlers, h)
    /\ ObserveDispatch("unsubscribe", NoMsg, NoDelivery)
    /\ UNCHANGED <<connectionVars, mounted, bridgeStatus, appVars, logVars,
                   panelVars>>

\* Socket s receives a frame: socket.onmessage, handleMessage(event.data)
SocketMessage(s, data) ==
    /\ readyState[s] \in {"OPEN", "CLOSING"}
    /\ LET d == handleMessage(eventHandlers, data) IN
          /\ ObserveDispatch("onmessage", [type |-> "frame", data |-> data], d)
          /\ vehicles' = AppHandlers(d.invoked, JSONparse(data).value,
                                     vehicles, now)
    /\ UNCHANGED <<connectionVars, eventHandlers, mounted, bridgeStatus,
                   globalEStop, v2vActive, now, logVars, panelVars>>

NextDispatch ==
    \/ AppMount
    \/ \E s \in SocketIds : SocketOpen(s)
    \/ \E s \in SocketIds : SocketClose(s)
    \/ \E h \in Subscribers : Subscribe(h)
    \/ \E h \in Subscribers : Unsubscribe(h)
    \/ \E s \in SocketIds, data \in Frames : SocketMessage(s, data)

SpecDispatch == Init /\ [][NextDispatch]_vars

(***************************************************************************)
(* The isolation specification: handlers are registered and frames arrive  *)
(* while some of the registered handlers throw.                            *)
(***************************************************************************)
IsolationFrames ==
    {FrameFor("telemetry", "qcar-0", "v", "1"), Frame("ack"),
     <<"{", "type", ":", "telemetry">>}

\* Socket s receives a frame and the handlers of `throwing' throw on it
SocketMessageThrowing(s, data, throwing) ==
    /\ readyState[s] \in {"OPEN", "CLOSING"}
    /\ LET d == handleMessageThrowing(eventHandlers, data, throwing) IN
          /\ ObserveDispatch("onmessage",
                             [type |-> "frame", data |-> data,
                              throwing |-> throwing], d)
          /\ vehicles' = AppHandlers(d.invoked, JSONparse(data).value,
                                     vehicles, now)
    /\ UNCHANGED <<connectionVars, eventHandlers, mounted, bridgeStatus,
                   globalEStop, v2vActive, now, logVars, panelVars>>

NextIsolation ==
    \/ AppMount
    \/ \E s \in SocketIds : SocketOpen(s)
    \/ \E h \in Subscribers : Subscribe(h)
    \/ \E s \in SocketIds, data \in IsolationFrames,
          throwing \in SUBSET Subscribers :
          SocketMessageThrowing(s, data, throwing)

SpecIsolation == Init /\ [][NextIsolation]_vars

----------------------------------------------------------------------------
(***************************************************************************)
(* Properties of the inbound dispatch (SpecDispatch).                      *)
(***************************************************************************)
\* The last frame received decodes to an object
Decodable(data) == JSONparse(data).ok /\ JSONparse(data).isObject

\* The `type' of the object a frame decodes to, "" for undefined
TypeOf(data) == Field(JSONparse(data).value, "type")

\* The handlers registered for type t
RegisteredFor(eh, t) == IF t \in DOMAIN eh THEN Members(eh[t]) ELSE {}

\* C17: a frame that does not decode (JSON.parse throws, or the value is
\* not an object) invokes no handler, raises nothing out of handleMessage
\* and leaves the status, the socket, the timers, the retry counter, the
\* registry and the vehicle set as they were.
C17_MalformedDropped ==
    [][(lastOp' = "onmessage" /\ ~Decodable(lastMsg'.data))
        => /\ delivered' = NoDelivery
           /\ UNCHANGED <<socket, connectionStatus, reconnectAttempts,
                          reconnectTimer, heartbeatTimer, timers, readyState,
                          eventHandlers, bridgeStatus, vehicles>>]_vars

\* a truncated frame arrived on the open connection with handlers registered
\* for its type and as wildcards
C17_Witness ==
    /\ lastOp = "onmessage"
    /\ lastMsg.data = <<"{", "type", ":", "telemetry">>
    /\ delivered = NoDelivery
    /\ connectionStatus = "connected"
    /\ Len(eventHandlers["telemetry"]) = 3
    /\ Len(eventHandlers["*"]) = 2
    /\ Len(vehicles) = 1

C29_SubscriberIsolation ==
    [][(lastOp' = "onmessage" /\ Decodable(lastMsg'.data))
        => /\ ~delivered'.raised
           /\ Members(delivered'.invoked) =
                 RegisteredFor(eventHandlers, TypeOf(lastMsg'.data))
                    \cup Members(eventHandlers["*"])]_vars

----------------------------------------------------------------------------
(***************************************************************************)
(* Properties of the vehicle set (SpecFleet).                              *)
(***************************************************************************)
IndexOf(vs, id) == {i \in DOMAIN vs : vs[i].id = id}

\* C5: with the global emergency stop engaged, a tick of the fallback loop
\* puts every vehicle that was not EMERGENCY_STOP into EMERGENCY_STOP with
\* target speed 0, so that after the tick every vehicle is EMERGENCY_STOP,
\* whatever changed the statuses before it.
C5_GlobalEStopConvergence ==
    [][(lastOp' = "tick" /\ globalEStop)
        => /\ Len(vehicles') = Len(vehicles)
           /\ \A i \in DOMAIN vehicles :
                 /\ vehicles'[i].status = "EMERGENCY_STOP"
                 /\ vehicles'[i].id = vehicles[i].id
                 /\ vehicles[i].status # "EMERGENCY_STOP"
                       => vehicles'[i].targetSpeed = 0]_vars

C5_Witness ==
    /\ lastOp = "tick"
    /\ globalEStop
    /\ Len(vehicles) = 2
    /\ \A i \in DOMAIN vehicles :
          vehicles[i].status = "EMERGENCY_STOP" /\ vehicles[i].targetSpeed = 0
    /\ \E i \in DOMAIN vehicles : vehicles[i].telemetry.x = Val(1)

\* C6: a disconnect-type vehicle_status message for a known id sets that
\* vehicle's status to DISCONNECTED and changes nothing else of it (telemetry,
\* name, target speed, config) and no other vehicle; for an unknown id it
\* changes nothing.
C6_DisconnectPreservesSnapshot ==
    [][(lastOp' = "vehicle_status" /\ lastMsg'.status = "disconnected")
        => /\ Len(vehicles') = Len(vehicles)
           /\ \A i \in DOMAIN vehicles :
                 vehicles'[i] =
                    IF vehicles[i].id = lastMsg'.vehicle_id
                    THEN [vehicles[i] EXCEPT !.status = "DISCONNECTED"]
                    ELSE vehicles[i]
           /\ UNCHANGED <<globalEStop, bridgeStatus, v2vActive>>]_vars

C6_Witness ==
    /\ lastOp = "vehicle_status"
    /\ lastMsg.status = "disconnected"
    /\ Len(vehicles) = 2
    /\ \E i \in DOMAIN vehicles :
          /\ vehicles[i].id = lastMsg.vehicle_id
          /\ vehicles[i].status = "DISCONNECTED"
          /\ vehicles[i].telemetry.x = Val(1)
          /\ vehicles[i].telemetry.velocity = Val(1)
          /\ vehicles[i].name = "Lead"
          /\ vehicles[i].targetSpeed = 1

\* C7: a connect-type vehicle_status message for an unknown id adds exactly
\* one vehicle with that id; for a known id it adds none and only sets the
\* status to IDLE; the ids of the vehicle set are pairwise distinct.
C7_CreationIdempotent ==
    /\ [](\A i, j \in DOMAIN vehicles :
             vehicles[i].id = vehicles[j].id => i = j)
    /\ [][(lastOp' = "vehicle_status" /\ lastMsg'.status = "connected")
            => IF IndexOf(vehicles, lastMsg'.vehicle_id) = {}
               THEN /\ Len(vehicles') = Len(vehicles) + 1
                    /\ \A i \in DOMAIN vehicles : vehicles'[i] = vehicles[i]
                    /\ vehicles'[Len(vehicles')].id = lastMsg'.vehicle_id
               ELSE /\ Len(vehicles') = Len(vehicles)
                    /\ \A i \in DOMAIN vehicles :
                          vehicles'[i] =
                             IF vehicles[i].id = lastMsg'.vehicle_id
                             THEN [vehicles[i] EXCEPT !.status = "IDLE"]
                             ELSE vehicles[i]]_vars

\* a connect-type message was handled for a vehicle that existed before it
\* (a new vehicle has the default name and pose)
C7_Witness ==
    /\ lastOp = "vehicle_status"
    /\ lastMsg.status = "connected"
    /\ Cardinality(IndexOf(vehicles, lastMsg.vehicle_id)) = 1
    /\ \E i \in DOMAIN vehicles :
          /\ vehicles[i].id = lastMsg.vehicle_id
          /\ vehicles[i].status = "IDLE"
          /\ vehicles[i].name = "Lead"
          /\ vehicles[i].telemetry.x = Val(1)

\* C19: the vehicle set grows by one vehicle exactly when a connect-type
\* vehicle_status message names an id that is not in it; every other
\* operation (telemetry for known and unknown ids, disconnect-type messages,
\* ticks, the operator's commands and edits) keeps the vehicles and their
\* ids, in their order.
C19_VehicleSetOnlyGrows ==
    [][IF /\ lastOp' = "vehicle_status"
          /\ lastMsg'.status = "connected"
          /\ IndexOf(vehicles, lastMsg'.vehicle_id) = {}
       THEN /\ Len(vehicles') = Len(vehicles) + 1
            /\ vehicles'[Len(vehicles')].id = lastMsg'.vehicle_id
            /\ \A i \in DOMAIN vehicles : vehicles'[i] = vehicles[i]
       ELSE /\ Len(vehicles') = Len(vehicles)
            /\ \A i \in DOMAIN vehicles : vehicles'[i].id = vehicles[i].id]_vars

\* telemetry for an id that was never announced arrived: the one vehicle
\* shown is still the only one
C19_Witness ==
    /\ lastOp = "telemetry"
    /\ lastMsg.vehicle_id \notin ShownIds
    /\ Len(vehicles) = 1
    /\ vehicles[1].status = "DISCONNECTED"

\* C20: after a button of a vehicle card was selected the vehicle has the
\* status of the button: ACTIVE for start, STOPPED for stop, EMERGENCY_STOP
\* for the emergency stop.
C20_OptimisticTransitions ==
    lastOp = "statusChange"
        => \E i \in DOMAIN vehicles :
              /\ vehicles[i].id = lastMsg.vehicle_id
              /\ vehicles[i].status = lastMsg.status

\* C24: while the bridge status is `connected' the tick changes no
\* vehicle's telemetry: the simulator step is not applied, and apart from
\* the enforcement of the global emergency stop (status EMERGENCY_STOP,
\* target speed 0) the tick leaves every vehicle as it is.
C24_TickNoOpWhileConnected ==
    [][(lastOp' = "tick" /\ bridgeStatus = "connected")
        => /\ DOMAIN vehicles' = DOMAIN vehicles
           /\ \A i \in DOMAIN vehicles :
                 /\ vehicles'[i].telemetry = vehicles[i].telemetry
                 /\ IF globalEStop /\ vehicles[i].status # "EMERGENCY_STOP"
                    THEN vehicles'[i] =
                            [vehicles[i] EXCEPT !.status = "EMERGENCY_STOP",
                                                !.targetSpeed = 0]
                    ELSE vehicles'[i] = vehicles[i]]_vars

\* a tick ran with the bridge connected over a vehicle in EMERGENCY_STOP that
\* still reports a speed: the simulator step would have slowed it down
C24_Witness ==
    /\ lastOp = "tick"
    /\ bridgeStatus = "connected"
    /\ ~globalEStop
    /\ \E i \in DOMAIN vehicles :
          /\ vehicles[i].status = "EMERGENCY_STOP"
          /\ vehicles[i].telemetry.velocity = Val(1)

\* A vehicle shown as DISCONNECTED leaves that status in this step
LeavesDisconnected(i) ==
    /\ i \in DOMAIN vehicles
    /\ i \in DOMAIN vehicles'
    /\ vehicles[i].status = "DISCONNECTED"
    /\ vehicles'[i].status # "DISCONNECTED"

\* The step handles a connect-type message for vehicle i
ConnectMessageFor(i) ==
    /\ lastOp' = "vehicle_status"
    /\ lastMsg'.status = "connected"
    /\ lastMsg'.vehicle_id = vehicles[i].id

\* C26 as stated: a DISCONNECTED vehicle leaves that status only through a
\* connect-type message for its id; no tick, telemetry message or enforcement
\* of the global emergency stop moves it.
C26_DisconnectedUntilConnect ==
    [][\A i \in 1..Cardinality(FleetIds) :
          LeavesDisconnected(i) => ConnectMessageFor(i)]_vars

\* C26, amended: a DISCONNECTED vehicle leaves that status only through a
\* connect-type message for its id (to IDLE) or through a tick with the
\* global emergency stop engaged (to EMERGENCY_STOP, target speed 0); no tick
\* without the flag, telemetry message or operator edit moves it.
C26_DisconnectedUntilConnectOrEStop ==
    [][\A i \in 1..Cardinality(FleetIds) :
          LeavesDisconnected(i)
            => \/ ConnectMessageFor(i) /\ vehicles'[i].status = "IDLE"
               \/ /\ lastOp' = "tick"
                  /\ globalEStop
                  /\ vehicles'[i].status = "EMERGENCY_STOP"
                  /\ vehicles'[i].targetSpeed = 0]_vars

\* a tick without the flag and with the bridge not connected ran over a
\* DISCONNECTED vehicle that reports a speed, and left it DISCONNECTED
C26_Witness ==
    /\ lastOp = "tick"
    /\ ~globalEStop
    /\ bridgeStatus # "connected"
    /\ \E i \in DOMAIN vehicles :
          /\ vehicles[i].status = "DISCONNECTED"
          /\ vehicles[i].telemetry.velocity = Val(1)

----------------------------------------------------------------------------
(***************************************************************************)
(* Properties of the telemetry merge (SpecMerge).                          *)
(***************************************************************************)
MergedFields == TelemetryFields \ {"lastUpdate"}

\* msg carries field f, under either spelling
Present(msg, f) ==
    \/ msg[f] # Undef
    \/ f \in DOMAIN Alias /\ msg[Alias[f]] # Undef

\* the value msg carries for field f: the full spelling's when it is there
Carried(msg, f) ==
    IF msg[f] # Undef THEN msg[f] ELSE msg[Alias[f]]

\* msg with every abbreviated spelling replaced by the full one
FullSpelling(msg) ==
    [k \in MsgKeys |->
        IF k \in DOMAIN Alias THEN Carried(msg, k)
        ELSE IF k \in AliasKeys THEN Undef
        ELSE msg[k]]

\* C3: a telemetry message applied to the snapshot of the vehicle it names
\* gives every field it carries the carried value and leaves every field it
\* does not carry at the value the earlier messages left there (0 and false
\* included); the other vehicles are untouched.  Messages are applied one
\* by one in the order of delivery, so the later message wins.
C3_MergeKeepsUnseenFields ==
    [][lastOp' = "telemetry"
        => /\ Len(vehicles') = Len(vehicles)
           /\ \A i \in DOMAIN vehicles :
                 IF vehicles[i].id = lastMsg'.vehicle_id
                 THEN \A f \in MergedFields :
                         vehicles'[i].telemetry[f] =
                            IF Present(lastMsg', f) THEN Carried(lastMsg', f)
                            ELSE vehicles[i].telemetry[f]
                 ELSE vehicles'[i] = vehicles[i]]_vars

\* the last message carried x only; battery 0, gps_valid false and throttle 0
\* set by earlier messages are still there
C3_Witness ==
    /\ lastOp = "telemetry"
    /\ lastMsg.x = Val(1)
    /\ Len(vehicles) = 1
    /\ vehicles[1].telemetry.x = Val(1)
    /\ vehicles[1].telemetry.battery = Val(0)
    /\ vehicles[1].telemetry.gps_valid = Val(FALSE)
    /\ vehicles[1].telemetry.velocity = Val(1)
    /\ vehicles[1].telemetry.state = Val("FOLLOWING_PATH")

C8_AliasEquivalence ==
    [][lastOp' = "telemetry"
        => /\ vehicles' = onTelemetry(vehicles, FullSpelling(lastMsg'), now)
           /\ \A f \in DOMAIN Alias :
                 (lastMsg'[f] # Undef /\ lastMsg'[Alias[f]] # Undef)
                    => \A i \in IndexOf(vehicles, lastMsg'.vehicle_id) :
                          vehicles'[i].telemetry[f] = lastMsg'[f]]_vars

\* the last message spelled the speed `v'
C8_Witness ==
    /\ lastOp = "telemetry"
    /\ lastMsg.v = Val(1)
    /\ lastMsg.velocity = Undef
    /\ Len(vehicles) = 1
    /\ vehicles[1].telemetry.velocity = Val(1)
    /\ vehicles[1].telemetry.theta = Val(1)
    /\ vehicles[1].telemetry.steering = Val(1)
    /\ vehicles[1].telemetry.throttle = Val(1)

----------------------------------------------------------------------------
(***************************************************************************)
(* The log of App (SpecLog).  uuidv4() gives every entry a fresh id; the   *)
(* model numbers the entries in the order of their creation.               *)
(***************************************************************************)
\* xs.slice(0, n)
Slice0(xs, n) == SubSeq(xs, 1, Min(n, Len(xs)))

\* Mutant: the new entry is put last
addLog_Appends(prev, message, level, id, time) ==
    LET newLog == [id |-> id, timestamp |-> time, message |-> message,
                   level |-> level]
    IN  Slice0(prev \o <<newLog>>, LogCap)

\* addLog(message, level): the updater of setLogs
addLog(prev, message, level, id, time) ==
    LET newLog == [id |-> id, timestamp |-> time, message |-> message,
                   level |-> level]
    IN  Slice0(<<newLog>> \o prev, LogCap)

\* toggleV2V
ToggleV2V ==
    /\ mounted
    /\ logSeq < MaxLogAppends
    /\ v2vActive' = ~v2vActive
    /\ logs' = addLog(logs,
                      IF ~v2vActive THEN "V2V Network Enabled"
                      ELSE "V2V Network Disabled",
                      "INFO", logSeq + 1, now)
    /\ logSeq' = logSeq + 1
    /\ Observe("toggleV2V", Undef, <<>>)
    /\ UNCHANGED <<serviceVars, mounted, bridgeStatus, vehicles, globalEStop,
                   now, clearedAt, panelVars>>

\* The CLEAR button of the log panel: setLogs([])
ClearLogs ==
    /\ mounted
    /\ logs' = <<>>
    /\ clearedAt' = logSeq
    /\ Observe("clearLogs", Undef, <<>>)
    /\ UNCHANGED <<serviceVars, mounted, bridgeStatus, vehicles, globalEStop,
                   v2vActive, now, logSeq, panelVars>>

NextLog ==
    \/ AppMount
    \/ ToggleV2V
    \/ ClearLogs

SpecLog == Init /\ [][NextLog]_vars

\* C9: the log holds at most 50 entries, newest first, and they are exactly
\* the most recently appended ones: the last min(50, n) of the n entries
\* appended since the log was last emptied.
C9_LogCap ==
    /\ Len(logs) <= LogCap
    /\ Len(logs) = Min(LogCap, logSeq - clearedAt)
    /\ \A i \in DOMAIN logs : logs[i].id = logSeq - i + 1

\* 60 entries appended: the 50 most recent remain, entry 60 first
C9_Witness ==
    /\ logSeq = 60
    /\ clearedAt = 0
    /\ Len(logs) = 50
    /\ logs[1].id = 60
    /\ logs[50].id = 11

====
